---- MODULE Spec2Model ----
(***************************************************************************)
(* Model of src/pomodoro.py: the PomodoroTimer history store (_load_data,  *)
(* _save_data), the countdown engine (countdown) and the cycle state       *)
(* machine (run_pomodoro, _save_completed_pomodoro,                        *)
(* _save_incomplete_pomodoro).                                             *)
(*                                                                         *)
(* One process is one invocation of main(): it constructs a timer (which   *)
(* loads the storage file), runs one cycle and exits.  Successive          *)
(* processes share only the storage file.                                  *)
(*                                                                         *)
(* Environment of specification Spec: the storage file may initially hold  *)
(* anything; the user answers prompts; the user interrupt (Ctrl+C,         *)
(* KeyboardInterrupt) arrives while the program waits inside one of its    *)
(* own interrupt handlers' scope: the polling loop of countdown, the       *)
(* notifier subprocess started by countdown, or input() of a prompt.       *)
(* Writes to the storage file succeed.                                     *)
(*                                                                         *)
(* Further specifications widen or change that environment:                *)
(*   SpecFail      open() or json.dump of _save_data may raise OSError;    *)
(*   SpecNotifier  a notify call may fail and print its warning;           *)
(*   SpecAsync     the interrupt may arrive at any statement;              *)
(*   SpecLive      Spec with the fairness of the process's own steps;      *)
(*   SpecStats     main() --stats over stores of dated records.            *)
(*                                                                         *)
(* Time: seconds.  datetime.now() is abstracted to the ordinal of the      *)
(* process (variable runs), so records of different runs carry different   *)
(* timestamps.                                                             *)
(***************************************************************************)
EXTENDS Integers, Sequences, FiniteSets, TLC

VARIABLES
    file,                    \* content of storage_path on disk
    runs,                    \* number of processes started so far (also the clock)
    pc,                      \* control location of the current process
    test_mode,               \* self.test_mode
    long_break_duration,     \* self.long_break_duration, in seconds
    data,                    \* self.data['pomodoros']
    pomodoro_start_time,     \* local of run_pomodoro
    completed_work_sessions, \* local of run_pomodoro
    i,                       \* loop variable of run_pomodoro
    session_type,            \* argument of the countdown call in progress / last made
    total_seconds,           \* local of countdown
    elapsed,                 \* time.time() - start_time at the last poll of countdown
    ret,                     \* where control goes when _save_data returns
    summary,                 \* "Total completed" printed by the run, -1 if not printed
    notifications,           \* calls of notify made by this process, in order
    answers,                 \* branches taken at the prompts of this process, in order
    interrupted_in,          \* where this process received the user interrupt
    loaded,                  \* what _load_data returned to this process
    file0,                   \* the storage file before the first process
    appended,                \* records whose append and save completed, all processes
    report                   \* what print_statistics printed, for main() --stats

vars == << file, runs, pc, test_mode, long_break_duration, data,
           pomodoro_start_time, completed_work_sessions, i, session_type,
           total_seconds, elapsed, ret, summary, notifications, answers,
           interrupted_in, loaded, file0, appended, report >>

-----------------------------------------------------------------------------
(* Program constants *)

WORK_DURATION == 25
SHORT_BREAK_DURATION == 5
WORK_SESSIONS_PER_POMODORO == 4
TestWorkSeconds == 5
TestShortBreakSeconds == 3
TestLongBreakSeconds == 5

(* Bounds of the model *)

\* processes started in one behaviour
MaxRuns == 2
\* records in the storage file before the first process
MaxInitRecords == 1
\* outside test mode, seconds the wall clock advances between two polls of
\* countdown (time.sleep(1) returns after at least one second)
CoarseStep == 300

\* processes started in one behaviour of SpecLive
MaxLiveRuns == 1
\* the most records in a storage file that statistics are printed for
MaxStatRecords == 2

\* --break values tried (main accepts 15..30 outside test mode)
LongBreakChoices == {15, 30}

\* lines typed at a prompt
Responses == {"", "y", "Y", " y ", "n", "skip"}

-----------------------------------------------------------------------------
(* Records and their JSON form *)

\* the dict built by _save_completed_pomodoro
CompletedRecord(start, now) ==
    [ start_time |-> start, end_time |-> now, completed |-> TRUE,
      work_sessions |-> WORK_SESSIONS_PER_POMODORO,
      total_work_minutes |-> WORK_DURATION * WORK_SESSIONS_PER_POMODORO ]

\* the dict built by _save_incomplete_pomodoro
IncompleteRecord(start, now, completed_sessions) ==
    [ start_time |-> start, end_time |-> now, completed |-> FALSE,
      work_sessions |-> completed_sessions,
      total_work_minutes |-> WORK_DURATION * completed_sessions ]

\* json.dump of one record: an object whose boolean is the token true / false
JsonOfRecord(r) ==
    [ start_time |-> r.start_time, end_time |-> r.end_time,
      completed |-> IF r.completed THEN "true" ELSE "false",
      work_sessions |-> r.work_sessions,
      total_work_minutes |-> r.total_work_minutes ]

\* json.load of one object of the list
RecordOfJson(o) ==
    [ start_time |-> o.start_time, end_time |-> o.end_time,
      completed |-> (o.completed = "true"),
      work_sessions |-> o.work_sessions,
      total_work_minutes |-> o.total_work_minutes ]

\* the storage file: kind is what open() and json.load() make of it, key is
\* what the 'pomodoros' member of a top-level object is, items its elements
FileOf(kind, key, items) == [ kind |-> kind, key |-> key, items |-> items ]

MissingFile == FileOf("missing", "absent", << >>)

\* open(path, 'w') has truncated the file: zero bytes, which json.load rejects
TruncatedFile == FileOf("invalid_json", "absent", << >>)

\* JsonDump with the bug of writing the new record only, not the history
JsonDumpLastOnly(d) ==
    FileOf("dict", "list",
           [ k \in 1..(IF Len(d) = 0 THEN 0 ELSE 1) |-> JsonOfRecord(d[Len(d)]) ])

\* json.dump(self.data, f): the whole history, in list order
JsonDump(d) == FileOf("dict", "list", [ k \in 1..Len(d) |-> JsonOfRecord(d[k]) ])

\* open(path, 'r') and json.load raise something other than JSONDecodeError:
\* bytes that are not text in the locale's encoding give UnicodeDecodeError,
\* which the except clause of _load_data does not name
LoadRaises(f) == f.kind = "undecodable"

\* the list _load_data leaves in self.data['pomodoros'] when it returns
LoadData(f) ==
    IF f.kind = "missing" THEN << >>
    ELSE IF f.kind = "invalid_json" THEN << >>
    ELSE IF f.kind # "dict" THEN << >>
    ELSE IF f.key = "absent" THEN << >>
    ELSE IF f.key # "list" THEN << >>
    ELSE [ k \in 1..Len(f.items) |-> RecordOfJson(f.items[k]) ]

\* records a storage file may hold before the first process: what earlier
\* runs wrote, and one no run writes (_load_data does not look at the elements)
InitRecords ==
    { CompletedRecord(0, 0), IncompleteRecord(0, 0, 2), IncompleteRecord(0, 0, 0) }

SeqsUpTo(S, n) == UNION { [1..k -> S] : k \in 0..n }

InitFiles ==
    { MissingFile,
      FileOf("undecodable", "absent", << >>),
      FileOf("invalid_json", "absent", << >>),
      FileOf("not_dict", "absent", << >>),
      FileOf("dict", "absent", << >>),
      FileOf("dict", "not_list", << >>) }
    \cup { JsonDump(d) : d \in SeqsUpTo(InitRecords, MaxInitRecords) }

-----------------------------------------------------------------------------
(* Notifications and prompts *)

\* NotificationFor with the two break branches exchanged
NotificationForSwapped(type, session_number) ==
    IF type = "work"
      THEN [ title |-> "Work Session Complete!", session |-> session_number ]
    ELSE IF type = "short_break"
      THEN [ title |-> "Pomodoro Complete!", session |-> 0 ]
      ELSE [ title |-> "Break Over!", session |-> 0 ]

\* the notify call countdown makes for a finished interval
NotificationFor(type, session_number) ==
    IF type = "work"
      THEN [ title |-> "Work Session Complete!", session |-> session_number ]
    ELSE IF type = "short_break"
      THEN [ title |-> "Break Over!", session |-> 0 ]
      ELSE [ title |-> "Pomodoro Complete!", session |-> 0 ]

\* StripLower without lower()
StripOnly(r) ==
    IF r = " y " THEN "y" ELSE r

\* input().strip().lower()
StripLower(r) ==
    IF r = "Y" \/ r = " y " THEN "y" ELSE r

\* response == 'y' or response == ''
TakesBreak(r) == StripLower(r) = "y" \/ StripLower(r) = ""

-----------------------------------------------------------------------------
(* Durations, in seconds *)

WorkSeconds == IF test_mode THEN TestWorkSeconds ELSE WORK_DURATION * 60

ShortBreakSeconds ==
    IF test_mode THEN TestShortBreakSeconds ELSE SHORT_BREAK_DURATION * 60

\* PollStep with the bug of a clock reading that does not advance between
\* two polls outside test mode
PollStepStalled == IF test_mode THEN 1 ELSE 0

PollStep == IF test_mode THEN 1 ELSE CoarseStep

Now == runs

\* pc when no process runs: none started yet, or the last one returned from
\* run_pomodoro (DONE, CANCELLED) or died with a traceback: in _load_data
\* (CRASHED), in _save_data (WRITE_ERROR), or of a KeyboardInterrupt no
\* handler caught (ABORTED)
Terminal == { "idle", "DONE", "CANCELLED", "CRASHED", "WRITE_ERROR", "ABORTED" }

\* nothing printed by print_statistics
NoReport ==
    [ shown |-> "nothing", days |-> 0, now |-> 0, completed |-> 0, incomplete |-> 0, sessions |-> 0,
      minutes |-> 0, avg_sessions |-> 0, avg_days |-> 0, avg_tenths |-> -1,
      recent |-> << >> ]

-----------------------------------------------------------------------------
Init ==
    /\ file \in InitFiles
    /\ file0 = file
    /\ runs = 0
    /\ pc = "idle"
    /\ test_mode = FALSE
    /\ long_break_duration = 0
    /\ data = << >>
    /\ pomodoro_start_time = 0
    /\ completed_work_sessions = 0
    /\ i = 0
    /\ session_type = "none"
    /\ total_seconds = 0
    /\ elapsed = 0
    /\ ret = "none"
    /\ summary = -1
    /\ notifications = << >>
    /\ answers = << >>
    /\ interrupted_in = "none"
    /\ loaded = << >>
    /\ appended = << >>
    /\ report = NoReport

-----------------------------------------------------------------------------
(* countdown *)

\* countdown(duration, session_type, session_number) up to its first poll:
\* total_seconds, start_time and the header lines
BeginCountdown(type, seconds) ==
    /\ session_type' = type
    /\ total_seconds' = seconds
    /\ elapsed' = 0
    /\ pc' = "countdown"

\* the summary lines at the end of run_pomodoro
\* Done with the total counting every record of the history
DoneCountsAll ==
    /\ pc' = "DONE"
    /\ summary' = Len(data)

Done ==
    /\ pc' = "DONE"
    /\ summary' = Cardinality({ k \in DOMAIN data : data[k].completed })

\* SaveCompletedPomodoro with the bug of offering the long break before the
\* record is written
SaveCompletedPomodoroDeferred ==
    /\ pc' = "decide_long_break"
    /\ UNCHANGED << data, ret >>

\* SaveCompletedPomodoro with the bug of assigning the list instead of
\* appending to it
SaveCompletedPomodoroResets ==
    IF test_mode
      THEN /\ pc' = "decide_long_break"
           /\ UNCHANGED << data, ret >>
      ELSE /\ data' = << CompletedRecord(pomodoro_start_time, Now) >>
           /\ pc' = "save_open"
           /\ ret' = "decide_long_break"

\* _save_completed_pomodoro up to its call of _save_data, then the long-break
\* prompt of run_pomodoro
SaveCompletedPomodoro ==
    IF test_mode
      THEN /\ pc' = "decide_long_break"
           /\ UNCHANGED << data, ret >>
      ELSE /\ data' = Append(data, CompletedRecord(pomodoro_start_time, Now))
           /\ pc' = "save_open"
           /\ ret' = "decide_long_break"

\* SaveIncompletePomodoro without the test for zero finished sessions
SaveIncompletePomodoroNoZeroCheck(completed_sessions) ==
    IF test_mode
      THEN /\ pc' = "CANCELLED"
           /\ UNCHANGED << data, ret >>
      ELSE /\ data' = Append(data, IncompleteRecord(pomodoro_start_time, Now,
                                                     completed_sessions))
           /\ pc' = "save_open"
           /\ ret' = "CANCELLED"

\* SaveIncompletePomodoro without the test for test mode
SaveIncompletePomodoroInTestMode(completed_sessions) ==
    IF completed_sessions = 0
      THEN /\ pc' = "CANCELLED"
           /\ UNCHANGED << data, ret >>
      ELSE /\ data' = Append(data, IncompleteRecord(pomodoro_start_time, Now,
                                                     completed_sessions))
           /\ pc' = "save_open"
           /\ ret' = "CANCELLED"

\* _save_incomplete_pomodoro up to its call of _save_data; every caller
\* returns from run_pomodoro right after it
SaveIncompletePomodoro(completed_sessions) ==
    IF test_mode \/ completed_sessions = 0
      THEN /\ pc' = "CANCELLED"
           /\ UNCHANGED << data, ret >>
      ELSE /\ data' = Append(data, IncompleteRecord(pomodoro_start_time, Now,
                                                     completed_sessions))
           /\ pc' = "save_open"
           /\ ret' = "CANCELLED"

\* the for loop of run_pomodoro goes to its next iteration
NextWorkSession ==
    /\ i' = i + 1
    /\ BeginCountdown("work", WorkSeconds)
    /\ UNCHANGED << data, ret, completed_work_sessions, summary >>

\* WorkReturned with the bug of counting the session before looking at the
\* result of its countdown
WorkReturnedCountsCancelled(work_completed) ==
    IF ~work_completed
      THEN /\ SaveIncompletePomodoro(completed_work_sessions + 1)
           /\ UNCHANGED << completed_work_sessions, i, session_type,
                           total_seconds, elapsed, summary >>
      ELSE /\ completed_work_sessions' = completed_work_sessions + 1
           /\ IF i < WORK_SESSIONS_PER_POMODORO
                THEN /\ pc' = "decide_short_break"
                     /\ UNCHANGED << data, ret >>
                ELSE SaveCompletedPomodoro
           /\ UNCHANGED << i, session_type, total_seconds, elapsed, summary >>

\* run_pomodoro after countdown(WORK_DURATION, 'work', i) returned
WorkReturned(work_completed) ==
    IF ~work_completed
      THEN /\ SaveIncompletePomodoro(completed_work_sessions)
           /\ UNCHANGED << completed_work_sessions, i, session_type,
                           total_seconds, elapsed, summary >>
      ELSE /\ completed_work_sessions' = completed_work_sessions + 1
           /\ IF i < WORK_SESSIONS_PER_POMODORO
                THEN /\ pc' = "decide_short_break"
                     /\ UNCHANGED << data, ret >>
                ELSE SaveCompletedPomodoro
           /\ UNCHANGED << i, session_type, total_seconds, elapsed, summary >>

\* ShortBreakReturned with the bug of not counting the work session that
\* finished before the cancelled break
ShortBreakReturnedDropsSession(break_completed) ==
    IF ~break_completed
      THEN /\ SaveIncompletePomodoro(completed_work_sessions - 1)
           /\ UNCHANGED << completed_work_sessions, i, session_type,
                           total_seconds, elapsed, summary >>
      ELSE NextWorkSession

\* run_pomodoro after countdown(SHORT_BREAK_DURATION, 'short_break') returned
ShortBreakReturned(break_completed) ==
    IF ~break_completed
      THEN /\ SaveIncompletePomodoro(completed_work_sessions)
           /\ UNCHANGED << completed_work_sessions, i, session_type,
                           total_seconds, elapsed, summary >>
      ELSE NextWorkSession

\* LongBreakReturned with the bug of treating a cancelled long break like a
\* cancelled short break
LongBreakReturnedSavesIncomplete(break_completed) ==
    IF ~break_completed
      THEN /\ SaveIncompletePomodoro(completed_work_sessions)
           /\ UNCHANGED << completed_work_sessions, i, session_type,
                           total_seconds, elapsed, summary >>
      ELSE /\ Done
           /\ UNCHANGED << data, ret, completed_work_sessions, i, session_type,
                           total_seconds, elapsed >>

\* run_pomodoro after countdown(long_break_duration, 'long_break') returned:
\* the result is not looked at
LongBreakReturned(break_completed) ==
    /\ Done
    /\ UNCHANGED << data, ret, completed_work_sessions, i, session_type,
                    total_seconds, elapsed >>

CountdownReturned(result) ==
    IF session_type = "work" THEN WorkReturned(result)
    ELSE IF session_type = "short_break" THEN ShortBreakReturned(result)
    ELSE LongBreakReturned(result)

\* the state of the cycle a countdown of this type belongs to
StateOfType(type) ==
    IF type = "work" THEN "WORK"
    ELSE IF type = "short_break" THEN "SHORT_BREAK" ELSE "LONG_BREAK"

-----------------------------------------------------------------------------
(* Actions *)

\* main() without --stats: PomodoroTimer(...) loads the file, run_pomodoro
\* starts the cycle and calls countdown for the first work session
Start(tm, lb) ==
    /\ pc \in Terminal
    /\ runs < MaxRuns
    /\ runs' = runs + 1
    /\ notifications' = << >>
    /\ answers' = << >>
    /\ interrupted_in' = "none"
    /\ summary' = -1
    /\ ret' = "none"
    /\ test_mode' = tm
    /\ long_break_duration' = IF tm THEN TestLongBreakSeconds ELSE lb * 60
    /\ pomodoro_start_time' = runs'
    /\ completed_work_sessions' = 0
    /\ IF LoadRaises(file)
         THEN /\ pc' = "CRASHED"
              /\ data' = << >>
              /\ loaded' = << >>
              /\ i' = 0
              /\ session_type' = "none"
              /\ total_seconds' = 0
              /\ elapsed' = 0
         ELSE /\ data' = LoadData(file)
              /\ loaded' = LoadData(file)
              /\ i' = 1
              /\ BeginCountdown("work",
                     IF tm THEN TestWorkSeconds ELSE WORK_DURATION * 60)
    /\ UNCHANGED << file, file0, appended >>
    /\ UNCHANGED report

\* one pass of the while loop of countdown with remaining > 0: the progress
\* line, then time.sleep(1)
Sleep ==
    /\ pc = "countdown"
    /\ total_seconds - elapsed > 0
    /\ elapsed' = elapsed + PollStep
    /\ UNCHANGED << file, runs, pc, test_mode, long_break_duration, data,
                    pomodoro_start_time, completed_work_sessions, i,
                    session_type, total_seconds, ret, summary, notifications,
                    answers, interrupted_in, loaded, file0, appended >>
    /\ UNCHANGED report

\* the pass with remaining <= 0: the 100% line, break, the DONE line, and the
\* call of notify, which starts the notifier and waits for it
CountdownElapsed ==
    /\ pc = "countdown"
    /\ total_seconds - elapsed <= 0
    /\ notifications' = Append(notifications, NotificationFor(session_type, i))
    /\ pc' = "notify"
    /\ UNCHANGED << file, runs, test_mode, long_break_duration, data,
                    pomodoro_start_time, completed_work_sessions, i,
                    session_type, total_seconds, elapsed, ret, summary,
                    answers, interrupted_in, loaded, file0, appended >>
    /\ UNCHANGED report

\* notify returns (whether or not the notifier worked) and countdown returns
\* True to run_pomodoro
NotifyReturns ==
    /\ pc = "notify"
    /\ CountdownReturned(TRUE)
    /\ UNCHANGED << file, runs, test_mode, long_break_duration,
                    pomodoro_start_time, notifications, answers,
                    interrupted_in, loaded, file0, appended >>
    /\ UNCHANGED report

\* KeyboardInterrupt inside the try block of countdown, in the loop or in
\* notify (whose except clauses name Exception only): "Session cancelled",
\* countdown returns False to run_pomodoro
CountdownInterrupted ==
    /\ pc \in { "countdown", "notify" }
    /\ interrupted_in' = StateOfType(session_type)
    /\ CountdownReturned(FALSE)
    /\ UNCHANGED << file, runs, test_mode, long_break_duration,
                    pomodoro_start_time, notifications, answers,
                    loaded, file0, appended >>
    /\ UNCHANGED report

\* "Take a short break? (y/n)" answered
AnswerShortBreak(response) ==
    /\ pc = "decide_short_break"
    /\ IF TakesBreak(response)
         THEN /\ answers' = Append(answers, "yes")
              /\ BeginCountdown("short_break", ShortBreakSeconds)
              /\ UNCHANGED << data, ret, completed_work_sessions, i, summary >>
         ELSE /\ answers' = Append(answers, "skip")
              /\ NextWorkSession
    /\ UNCHANGED << file, runs, test_mode, long_break_duration,
                    pomodoro_start_time, notifications, interrupted_in,
                    loaded, file0, appended >>
    /\ UNCHANGED report

\* KeyboardInterrupt in input() of the short-break prompt
InterruptShortBreakPrompt ==
    /\ pc = "decide_short_break"
    /\ interrupted_in' = "DECIDE_SHORT_BREAK"
    /\ SaveIncompletePomodoro(completed_work_sessions)
    /\ UNCHANGED << file, runs, test_mode, long_break_duration,
                    pomodoro_start_time, completed_work_sessions, i,
                    session_type, total_seconds, elapsed, summary,
                    notifications, answers, loaded, file0, appended >>
    /\ UNCHANGED report

\* "Take a long break? (y/n)" answered
AnswerLongBreak(response) ==
    /\ pc = "decide_long_break"
    /\ IF TakesBreak(response)
         THEN /\ answers' = Append(answers, "yes")
              /\ BeginCountdown("long_break", long_break_duration)
              /\ UNCHANGED summary
         ELSE /\ answers' = Append(answers, "skip")
              /\ Done
              /\ UNCHANGED << session_type, total_seconds, elapsed >>
    /\ UNCHANGED << file, runs, test_mode, long_break_duration, data,
                    pomodoro_start_time, completed_work_sessions, i, ret,
                    notifications, interrupted_in, loaded, file0, appended >>
    /\ UNCHANGED report

\* KeyboardInterrupt in input() of the long-break prompt: "Skipping long break."
InterruptLongBreakPrompt ==
    /\ pc = "decide_long_break"
    /\ interrupted_in' = "DECIDE_LONG_BREAK"
    /\ Done
    /\ UNCHANGED << file, runs, test_mode, long_break_duration, data,
                    pomodoro_start_time, completed_work_sessions, i,
                    session_type, total_seconds, elapsed, ret, notifications,
                    answers, loaded, file0, appended >>
    /\ UNCHANGED report

\* _save_data: open(self.storage_path, 'w') creates or truncates the file
SaveOpen ==
    /\ pc = "save_open"
    /\ file' = TruncatedFile
    /\ pc' = "save_dump"
    /\ UNCHANGED << runs, test_mode, long_break_duration, data,
                    pomodoro_start_time, completed_work_sessions, i,
                    session_type, total_seconds, elapsed, ret, summary,
                    notifications, answers, interrupted_in, loaded, file0,
                    appended >>
    /\ UNCHANGED report

\* _save_data: json.dump writes the whole history, the file is closed and the
\* caller goes on
SaveDump ==
    /\ pc = "save_dump"
    /\ file' = JsonDump(data)
    /\ appended' = Append(appended, data[Len(data)])
    /\ pc' = ret
    /\ UNCHANGED << runs, test_mode, long_break_duration, data,
                    pomodoro_start_time, completed_work_sessions, i,
                    session_type, total_seconds, elapsed, ret, summary,
                    notifications, answers, interrupted_in, loaded, file0 >>
    /\ UNCHANGED report

Next ==
    \/ \E tm \in BOOLEAN, lb \in LongBreakChoices : Start(tm, lb)
    \/ Sleep
    \/ CountdownElapsed
    \/ NotifyReturns
    \/ CountdownInterrupted
    \/ \E response \in Responses : AnswerShortBreak(response)
    \/ InterruptShortBreakPrompt
    \/ \E response \in Responses : AnswerLongBreak(response)
    \/ InterruptLongBreakPrompt
    \/ SaveOpen
    \/ SaveDump

Spec == Init /\ [][Next]_vars

-----------------------------------------------------------------------------
(* Progress: specification SpecLive *)

\* the user types a line or presses Ctrl+C at the short-break prompt
ShortBreakPromptEnds ==
    \/ \E response \in Responses : AnswerShortBreak(response)
    \/ InterruptShortBreakPrompt

\* the user types a line or presses Ctrl+C at the long-break prompt
LongBreakPromptEnds ==
    \/ \E response \in Responses : AnswerLongBreak(response)
    \/ InterruptLongBreakPrompt

\* the steps of the process itself are taken when they can be: time.sleep
\* returns and the clock it reads has advanced, the notifier subprocess
\* exits, the write of the file completes; a prompt is answered or
\* interrupted.  Nothing obliges the user to start a process or to
\* interrupt a countdown.
Fairness ==
    /\ WF_vars(Sleep)
    /\ WF_vars(CountdownElapsed)
    /\ WF_vars(NotifyReturns)
    /\ WF_vars(SaveOpen)
    /\ WF_vars(SaveDump)
    /\ WF_vars(ShortBreakPromptEnds)
    /\ WF_vars(LongBreakPromptEnds)

\* the storage files the processes of SpecLive start from
LiveFiles == { MissingFile, JsonDump(<< CompletedRecord(0, 0) >>) }

InitLive == Init /\ file \in LiveFiles

StartLive(tm, lb) == runs < MaxLiveRuns /\ Start(tm, lb)

NextLive ==
    \/ \E tm \in BOOLEAN, lb \in LongBreakChoices : StartLive(tm, lb)
    \/ Sleep
    \/ CountdownElapsed
    \/ NotifyReturns
    \/ CountdownInterrupted
    \/ \E response \in Responses : AnswerShortBreak(response)
    \/ InterruptShortBreakPrompt
    \/ \E response \in Responses : AnswerLongBreak(response)
    \/ InterruptLongBreakPrompt
    \/ SaveOpen
    \/ SaveDump

SpecLive == InitLive /\ [][NextLive]_vars /\ Fairness

-----------------------------------------------------------------------------
(* A notifier that fails: specification SpecNotifier *)

\* notify: subprocess.run raises FileNotFoundError (terminal-notifier is not
\* installed) or another Exception; the except clause prints the warning
NotifyFails ==
    /\ pc = "notify"
    /\ pc' = "notify_warned"
    /\ UNCHANGED << file, runs, test_mode, long_break_duration, data,
                    pomodoro_start_time, completed_work_sessions, i,
                    session_type, total_seconds, elapsed, ret, summary,
                    notifications, answers, interrupted_in, loaded, file0,
                    appended, report >>

\* NotifyWarningReturns with the bug of a failed notifier cancelling the
\* interval
NotifyWarningReturnsCancelled ==
    /\ pc = "notify_warned"
    /\ CountdownReturned(FALSE)
    /\ UNCHANGED << file, runs, test_mode, long_break_duration,
                    pomodoro_start_time, notifications, answers,
                    interrupted_in, loaded, file0, appended, report >>

\* notify returns after the warning and countdown returns True
NotifyWarningReturns ==
    /\ pc = "notify_warned"
    /\ CountdownReturned(TRUE)
    /\ UNCHANGED << file, runs, test_mode, long_break_duration,
                    pomodoro_start_time, notifications, answers,
                    interrupted_in, loaded, file0, appended, report >>

\* KeyboardInterrupt while the except clause of notify prints the warning:
\* it leaves notify and is caught by countdown, which returns False
NotifyWarningInterrupted ==
    /\ pc = "notify_warned"
    /\ interrupted_in' = StateOfType(session_type)
    /\ CountdownReturned(FALSE)
    /\ UNCHANGED << file, runs, test_mode, long_break_duration,
                    pomodoro_start_time, notifications, answers, loaded,
                    file0, appended, report >>

NextNotifier ==
    \/ Next
    \/ NotifyFails
    \/ NotifyWarningReturns
    \/ NotifyWarningInterrupted

SpecNotifier == Init /\ [][NextNotifier]_vars

-----------------------------------------------------------------------------
(* Writes that fail: specification SpecFail *)

\* _save_data: open(self.storage_path, 'w') raises OSError (no permission,
\* read-only file system); nothing catches it, the process dies with the
\* file as it was
OpenFails ==
    /\ pc = "save_open"
    /\ pc' = "WRITE_ERROR"
    /\ UNCHANGED << file, runs, test_mode, long_break_duration, data,
                    pomodoro_start_time, completed_work_sessions, i,
                    session_type, total_seconds, elapsed, ret, summary,
                    notifications, answers, interrupted_in, loaded, file0,
                    appended, report >>

\* DumpFails with the bug of catching the error and going on
DumpFailsSwallowed ==
    /\ pc = "save_dump"
    /\ pc' = ret
    /\ UNCHANGED << file, runs, test_mode, long_break_duration, data,
                    pomodoro_start_time, completed_work_sessions, i,
                    session_type, total_seconds, elapsed, ret, summary,
                    notifications, answers, interrupted_in, loaded, file0,
                    appended, report >>

\* _save_data: json.dump or the closing of the file raises OSError (disk
\* full) after open() truncated the file; nothing catches it, the process
\* dies and the file keeps the part that was written, which is not JSON
DumpFails ==
    /\ pc = "save_dump"
    /\ pc' = "WRITE_ERROR"
    /\ UNCHANGED << file, runs, test_mode, long_break_duration, data,
                    pomodoro_start_time, completed_work_sessions, i,
                    session_type, total_seconds, elapsed, ret, summary,
                    notifications, answers, interrupted_in, loaded, file0,
                    appended, report >>

NextFail ==
    \/ Next
    \/ OpenFails
    \/ DumpFails

SpecFail == Init /\ [][NextFail]_vars

-----------------------------------------------------------------------------
(* Interrupts at any statement: specification SpecAsync *)

\* KeyboardInterrupt while countdown prints its header, before its try
\* block: countdown does not catch it.  The call for a work session is
\* outside any try block of run_pomodoro, so the process dies with a
\* traceback; the call for a short break is inside the try block of the
\* short-break prompt, whose handler saves the incomplete cycle; the call
\* for the long break is inside the try block of the long-break prompt,
\* whose handler goes on to the summary
InterruptInHeader ==
    /\ pc = "countdown"
    /\ elapsed = 0
    /\ interrupted_in' = "HEADER"
    /\ IF session_type = "work"
         THEN /\ pc' = "ABORTED"
              /\ UNCHANGED << data, ret, summary >>
       ELSE IF session_type = "short_break"
         THEN /\ SaveIncompletePomodoro(completed_work_sessions)
              /\ UNCHANGED summary
         ELSE /\ Done
              /\ UNCHANGED << data, ret >>
    /\ UNCHANGED << file, runs, test_mode, long_break_duration,
                    pomodoro_start_time, completed_work_sessions, i,
                    session_type, total_seconds, elapsed, notifications,
                    answers, loaded, file0, appended, report >>

\* KeyboardInterrupt while the text of a prompt is printed, before the try
\* block around input(): nothing catches it, the process dies
InterruptAtPromptText ==
    /\ pc \in { "decide_short_break", "decide_long_break" }
    /\ interrupted_in' = "PROMPT_TEXT"
    /\ pc' = "ABORTED"
    /\ UNCHANGED << file, runs, test_mode, long_break_duration, data,
                    pomodoro_start_time, completed_work_sessions, i,
                    session_type, total_seconds, elapsed, ret, summary,
                    notifications, answers, loaded, file0, appended, report >>

\* KeyboardInterrupt inside _save_data, the file being as open() and
\* json.dump have left it so far.  The save after a cancelled short break
\* is inside the try block of the short-break prompt: its handler calls
\* _save_incomplete_pomodoro once more, which appends a second record.
\* Every other save is outside a try block or inside a handler: the
\* process dies
InterruptInSave ==
    /\ pc \in { "save_open", "save_dump" }
    /\ interrupted_in' = "SAVE"
    /\ IF ret = "CANCELLED" /\ interrupted_in = "SHORT_BREAK"
         THEN SaveIncompletePomodoro(completed_work_sessions)
         ELSE /\ pc' = "ABORTED"
              /\ UNCHANGED << data, ret >>
    /\ UNCHANGED << file, runs, test_mode, long_break_duration,
                    pomodoro_start_time, completed_work_sessions, i,
                    session_type, total_seconds, elapsed, summary,
                    notifications, answers, loaded, file0, appended, report >>

NextAsync ==
    \/ Next
    \/ InterruptInHeader
    \/ InterruptAtPromptText
    \/ InterruptInSave

SpecAsync == Init /\ [][NextAsync]_vars

-----------------------------------------------------------------------------
(* main() --stats: specification SpecStats.  Timestamps are hours. *)

\* start times of the records of a store: one long ago, two on either side
\* of the cutoff of a week on one calendar day, a later one that day, one
\* the day after
StatStarts == { 0, 75, 80, 90, 100 }

StatSessions == { 0, 3, 4 }

StatRecords ==
    { [ start_time |-> s, end_time |-> s, completed |-> c,
        work_sessions |-> n, total_work_minutes |-> WORK_DURATION * n ] :
      s \in StatStarts, c \in BOOLEAN, n \in StatSessions }

StatFiles ==
    { MissingFile, FileOf("undecodable", "absent", << >>) }
    \cup { JsonDump(d) : d \in SeqsUpTo(StatRecords, MaxStatRecords) }

\* days of print_statistics: 0 stands for None (--stats), 7 for --week, 30
\* for --month
StatDays == { 0, 7, 30 }

\* datetime.now() of the statistics process
StatNows == { 245 }

\* datetime.date() of a timestamp
DateOf(t) == t \div 24

\* timedelta(days=days)
DaysDelta(days) == days * 24

RECURSIVE SumWorkSessions(_)
SumWorkSessions(h) ==
    IF h = << >> THEN 0 ELSE Head(h).work_sessions + SumWorkSessions(Tail(h))

RECURSIVE SumWorkMinutes(_)
SumWorkMinutes(h) ==
    IF h = << >> THEN 0
    ELSE Head(h).total_work_minutes + SumWorkMinutes(Tail(h))

IsCompleted(p) == p.completed

IsIncomplete(p) == ~p.completed

\* the value None of _calculate_avg_per_day, and its quotient as the pair
\* of dividend and divisor
NoAverage == [ sessions |-> 0, days |-> 0 ]

\* CalculateAvgPerDay dividing by the number of records
CalculateAvgPerDayByRecords(pomodoros) ==
    IF pomodoros = << >> THEN NoAverage
    ELSE [ sessions |-> SumWorkSessions(pomodoros), days |-> Len(pomodoros) ]

\* _calculate_avg_per_day: total_sessions / num_days
CalculateAvgPerDay(pomodoros) ==
    LET dates == { DateOf(pomodoros[k].start_time) : k \in DOMAIN pomodoros }
        num_days == Cardinality(dates)
    IN  IF pomodoros = << >> THEN NoAverage
        ELSE IF num_days = 0 THEN NoAverage
        ELSE [ sessions |-> SumWorkSessions(pomodoros), days |-> num_days ]

\* f"{avg:.1f}" in tenths: the quotient rounded to one decimal (no quotient
\* of these sizes lies halfway between two tenths)
Tenths(avg) == (20 * avg.sessions + avg.days) \div (2 * avg.days)

Reversed(h) == [ k \in 1..Len(h) |-> h[Len(h) + 1 - k] ]

\* pomodoros[-10:] if len(pomodoros) > 10 else pomodoros
Recent(h) == IF Len(h) > 10 THEN SubSeq(h, Len(h) - 9, Len(h)) ELSE h

\* what print_statistics prints for the history h
PrintStatistics(h, days, now) ==
    LET cutoff == now - DaysDelta(days)
        InPeriod(p) == p.start_time >= cutoff
        pomodoros == IF days # 0 THEN SelectSeq(h, InPeriod) ELSE h
        completed_pomodoros == SelectSeq(pomodoros, IsCompleted)
        incomplete_pomodoros == SelectSeq(pomodoros, IsIncomplete)
        avg_sessions_per_day ==
            IF completed_pomodoros # << >>
              THEN CalculateAvgPerDay(completed_pomodoros)
              ELSE NoAverage
        printed == avg_sessions_per_day.days # 0
                     /\ avg_sessions_per_day.sessions # 0
    IN  IF h = << >>
          THEN [ NoReport EXCEPT !.shown = "none_recorded",
                                 !.days = days, !.now = now ]
        ELSE IF pomodoros = << >>
          THEN [ NoReport EXCEPT !.shown = "none_in_period",
                                 !.days = days, !.now = now ]
        ELSE [ shown |-> "statistics", days |-> days, now |-> now,
               completed |-> Len(completed_pomodoros),
               incomplete |-> Len(incomplete_pomodoros),
               sessions |-> SumWorkSessions(pomodoros),
               minutes |-> SumWorkMinutes(pomodoros),
               avg_sessions |-> avg_sessions_per_day.sessions,
               avg_days |-> avg_sessions_per_day.days,
               avg_tenths |-> IF printed THEN Tenths(avg_sessions_per_day)
                              ELSE -1,
               recent |-> Reversed(Recent(pomodoros)) ]

InitStats ==
    /\ file \in StatFiles
    /\ file0 = file
    /\ runs = 0
    /\ pc = "idle"
    /\ test_mode = FALSE
    /\ long_break_duration = 0
    /\ data = << >>
    /\ pomodoro_start_time = 0
    /\ completed_work_sessions = 0
    /\ i = 0
    /\ session_type = "none"
    /\ total_seconds = 0
    /\ elapsed = 0
    /\ ret = "none"
    /\ summary = -1
    /\ notifications = << >>
    /\ answers = << >>
    /\ interrupted_in = "none"
    /\ loaded = << >>
    /\ appended = << >>
    /\ report = NoReport

\* main() with --stats: the timer is constructed, which loads the storage
\* file, and print_statistics(days) runs
Statistics(days, now) ==
    /\ pc \in { "idle", "STATS_SHOWN" }
    /\ IF LoadRaises(file)
         THEN /\ pc' = "CRASHED"
              /\ data' = << >>
              /\ loaded' = << >>
              /\ report' = NoReport
         ELSE /\ pc' = "STATS_SHOWN"
              /\ data' = LoadData(file)
              /\ loaded' = LoadData(file)
              /\ report' = PrintStatistics(LoadData(file), days, now)
    /\ UNCHANGED << file, runs, test_mode, long_break_duration,
                    pomodoro_start_time, completed_work_sessions, i,
                    session_type, total_seconds, elapsed, ret, summary,
                    notifications, answers, interrupted_in, file0,
                    appended >>

NextStats == \E days \in StatDays, now \in StatNows : Statistics(days, now)

SpecStats == InitStats /\ [][NextStats]_vars

-----------------------------------------------------------------------------
(* Vocabulary of the properties *)

IsPrefix(s, t) == Len(s) <= Len(t) /\ SubSeq(t, 1, Len(s)) = s

\* control is inside _save_data
Saving == pc \in { "save_open", "save_dump" }

\* the cycle is in state LONG_BREAK
InLongBreak == pc \in { "countdown", "notify" } /\ session_type = "long_break"

\* what a load of the storage file returns now
Persisted == LoadData(file)

\* the history in memory is the loaded one
GainedNothing == data = loaded

\* the history in memory is the loaded one followed by one record
GainedOne == Len(data) = Len(loaded) + 1 /\ IsPrefix(loaded, data)

LastRecord == data[Len(data)]

\* the record the run appended is the one whose save completed last
LastIsSaved == Len(appended) > 0 /\ appended[Len(appended)] = LastRecord

\* the history has gained exactly one record, a completed cycle of 4 sessions
OneCompletedRecord ==
    /\ GainedOne
    /\ LastRecord.completed = TRUE
    /\ LastRecord.work_sessions = 4

\* the history has gained exactly one record, an incomplete cycle of n sessions
OneIncompleteRecord(n) ==
    /\ GainedOne
    /\ LastRecord.completed = FALSE
    /\ LastRecord.work_sessions = n

\* number of notify calls with this title made by the process
Count(title) ==
    Cardinality({ k \in DOMAIN notifications : notifications[k].title = title })

\* number of short-break prompts answered yes by the process
ShortBreaksTaken ==
    Cardinality({ k \in DOMAIN answers : k <= 3 /\ answers[k] = "yes" })

-----------------------------------------------------------------------------
(* C1 *)

\* once the 4 work sessions of a run have finished, the history in memory is
\* the loaded one plus one completed record of 4 sessions, and whenever no
\* save is under way the storage file holds exactly that history
CompletedOnce ==
    /\ OneCompletedRecord
    /\ ~Saving => (Persisted = data /\ LastIsSaved)

\* C1 as stated: in any run in which all 4 work sessions finish, the history
\* gains exactly one record, completed with work_sessions = 4, whatever the
\* long break does afterwards
C1_AnyRun ==
    completed_work_sessions = 4 => CompletedOnce

\* C1 amended: in any run outside test mode in which all 4 work sessions
\* finish, the history gains exactly one record, completed with
\* work_sessions = 4, and neither the long-break prompt (yes, skip,
\* interrupt) nor the long-break countdown (completed, cancelled) adds a
\* record or changes that one
C1_CompletedOnce ==
    (~test_mode /\ completed_work_sessions = 4) => CompletedOnce

\* a run outside test mode ends after its long-break countdown was cancelled
C1_Witness ==
    /\ pc = "DONE"
    /\ ~test_mode
    /\ interrupted_in = "LONG_BREAK"
    /\ completed_work_sessions = 4
    /\ Len(Persisted) = Len(loaded) + 1

-----------------------------------------------------------------------------
(* C2 *)

\* the work countdown of session i was cancelled: control is on its way to
\* CANCELLED, and i is one of the 4 sessions
WorkCancelPath ==
    /\ i \in 1..4
    /\ completed_work_sessions = i - 1
    /\ pc \in { "save_open", "save_dump", "CANCELLED" }
    /\ Saving => ret = "CANCELLED"

\* C2 as stated: when the interrupt cancels the countdown of WORK(i) the run
\* ends in CANCELLED; for i >= 2 exactly one record, incomplete with
\* work_sessions = i-1, is appended; for i = 1 none
C2_AnyRun ==
    interrupted_in = "WORK" =>
        /\ WorkCancelPath
        /\ pc = "CANCELLED" =>
              IF i = 1
                THEN GainedNothing /\ Persisted = loaded
                ELSE OneIncompleteRecord(i - 1) /\ Persisted = data

\* C2 amended: when the interrupt cancels the countdown of WORK(i) the run
\* ends in CANCELLED; for i >= 2 outside test mode exactly one record,
\* incomplete with work_sessions = i-1, is appended; for i = 1, and in test
\* mode, none
C2_WorkCancelled ==
    interrupted_in = "WORK" =>
        /\ WorkCancelPath
        /\ pc = "CANCELLED" =>
              IF i = 1 \/ test_mode
                THEN GainedNothing /\ Persisted = loaded
                ELSE OneIncompleteRecord(i - 1) /\ Persisted = data

\* the third work session of a run outside test mode was cancelled and the
\* run has ended
C2_Witness ==
    /\ pc = "CANCELLED"
    /\ interrupted_in = "WORK"
    /\ ~test_mode
    /\ i = 3
    /\ Len(Persisted) = Len(loaded) + 1

-----------------------------------------------------------------------------
(* C3 *)

\* short break i or its prompt was interrupted: control is on its way to
\* CANCELLED, i is one of the 3 breaks and session i had finished
BreakCancelPath ==
    /\ i \in 1..3
    /\ completed_work_sessions = i
    /\ pc \in { "save_open", "save_dump", "CANCELLED" }
    /\ Saving => ret = "CANCELLED"

\* C3 as stated: an interrupt during SHORT_BREAK(i) or the prompt before it
\* ends the run in CANCELLED with a persisted incomplete record of
\* work_sessions = i
C3_AnyRun ==
    interrupted_in \in { "SHORT_BREAK", "DECIDE_SHORT_BREAK" } =>
        /\ BreakCancelPath
        /\ pc = "CANCELLED" => (OneIncompleteRecord(i) /\ Persisted = data)

\* C3 amended: an interrupt during SHORT_BREAK(i) or the prompt before it
\* ends the run in CANCELLED; outside test mode the run persists exactly one
\* record, incomplete with work_sessions = i; in test mode it persists none
C3_BreakCancelled ==
    interrupted_in \in { "SHORT_BREAK", "DECIDE_SHORT_BREAK" } =>
        /\ BreakCancelPath
        /\ pc = "CANCELLED" =>
              IF test_mode
                THEN GainedNothing /\ Persisted = loaded
                ELSE OneIncompleteRecord(i) /\ Persisted = data

\* the second short break of a run outside test mode was cancelled and the
\* run has ended
C3_Witness ==
    /\ pc = "CANCELLED"
    /\ interrupted_in = "SHORT_BREAK"
    /\ ~test_mode
    /\ i = 2
    /\ Len(Persisted) = Len(loaded) + 1

-----------------------------------------------------------------------------
(* C4 *)

\* a step of a running process that puts a completed record into the history
AppendsCompleted ==
    /\ pc \notin Terminal
    /\ Len(data') > Len(data)
    /\ data'[Len(data')].completed = TRUE

\* the completed record is in the history and in the storage file, once
WrittenOnce ==
    /\ OneCompletedRecord
    /\ Persisted = data
    /\ LastIsSaved

\* every step that appends a completed record is the return of the 4th work
\* countdown into a history that has gained nothing yet, and every step that
\* enters DECIDE_LONG_BREAK or LONG_BREAK finds the record written
WrittenBeforeLongBreak ==
    /\ AppendsCompleted =>
          /\ pc = "notify" /\ session_type = "work" /\ i = 4
          /\ GainedNothing
    /\ (pc' = "decide_long_break" \/ InLongBreak') => WrittenOnce'

\* C4 as stated: in every run the completed record is appended exactly once,
\* after the 4th work session finishes, and DECIDE_LONG_BREAK or LONG_BREAK
\* is never entered before the record has been written
C4_AnyRun == [][WrittenBeforeLongBreak]_vars

\* C4 amended: in every run outside test mode the completed record is
\* appended exactly once, after the 4th work session finishes, and
\* DECIDE_LONG_BREAK or LONG_BREAK is never entered before the record has
\* been written
C4_WrittenBeforeLongBreak == [][~test_mode' => WrittenBeforeLongBreak]_vars

\* the long-break prompt is offered in a run outside test mode
C4_Witness ==
    /\ pc = "decide_long_break"
    /\ ~test_mode
    /\ Len(Persisted) = Len(loaded) + 1

-----------------------------------------------------------------------------
(* C5 *)

\* the notify calls for work sessions are those of sessions 1..n, in order
WorkNotifiedUpTo(n) ==
    /\ Count("Work Session Complete!") = n
    /\ \A k \in DOMAIN notifications :
          notifications[k].title = "Work Session Complete!" =>
              /\ notifications[k].session \in 1..n
              /\ \A j \in 1..(k - 1) :
                    notifications[j].title = "Work Session Complete!" =>
                        notifications[j].session < notifications[k].session

\* countdown is inside its call of notify for an interval of this type
Notifying(type) == pc = "notify" /\ session_type = type

\* the short break that was entered last has not finished: it is counting
\* down or it was cancelled
ShortBreakUnfinished ==
    \/ pc = "countdown" /\ session_type = "short_break"
    \/ interrupted_in = "SHORT_BREAK"

\* the long break was entered and its countdown returned True
LongBreakFinished ==
    pc = "DONE" /\ session_type = "long_break" /\ interrupted_in = "none"

\* C5: every interval whose countdown finishes has triggered exactly one
\* notify call of its kind, and a cancelled interval or a skipped break none:
\* outside a call of notify, the work notifications are those of the finished
\* sessions 1..completed_work_sessions (a run cancelled in WORK(i) has none
\* for session i), the break-over notifications are as many as the short
\* breaks taken and finished, and there is a cycle-complete notification
\* exactly when the long break finished
C5_OneNotificationPerFinishedInterval ==
    /\ ~Notifying("work") => WorkNotifiedUpTo(completed_work_sessions)
    /\ ~Notifying("short_break") =>
          Count("Break Over!") =
              ShortBreaksTaken - (IF ShortBreakUnfinished THEN 1 ELSE 0)
    /\ ~Notifying("long_break") =>
          Count("Pomodoro Complete!") = (IF LongBreakFinished THEN 1 ELSE 0)

-----------------------------------------------------------------------------
(* C6 *)

FullSequence ==
    << [ title |-> "Work Session Complete!", session |-> 1 ],
       [ title |-> "Break Over!", session |-> 0 ],
       [ title |-> "Work Session Complete!", session |-> 2 ],
       [ title |-> "Break Over!", session |-> 0 ],
       [ title |-> "Work Session Complete!", session |-> 3 ],
       [ title |-> "Break Over!", session |-> 0 ],
       [ title |-> "Work Session Complete!", session |-> 4 ],
       [ title |-> "Pomodoro Complete!", session |-> 0 ] >>

\* the process has received no interrupt and has accepted every break so far
Uninterrupted ==
    /\ interrupted_in = "none"
    /\ \A k \in DOMAIN answers : answers[k] = "yes"

\* C6 as stated: in a run with no interrupt and every break accepted the
\* notifications are work(1), break-over, work(2), break-over, work(3),
\* break-over, work(4), cycle-complete in that order, and exactly one record
\* {work_sessions: 4, completed: true} is persisted
C6_AnyRun ==
    Uninterrupted =>
        /\ IsPrefix(notifications, FullSequence)
        /\ pc = "DONE" =>
              /\ notifications = FullSequence
              /\ OneCompletedRecord /\ Persisted = data

\* C6 amended: in a run with no interrupt and every break accepted the
\* notifications are work(1), break-over, work(2), break-over, work(3),
\* break-over, work(4), cycle-complete in that order; outside test mode
\* exactly one record {work_sessions: 4, completed: true} is persisted, in
\* test mode none
C6_FullRun ==
    Uninterrupted =>
        /\ IsPrefix(notifications, FullSequence)
        /\ pc = "DONE" =>
              /\ notifications = FullSequence
              /\ IF test_mode
                   THEN GainedNothing /\ Persisted = loaded
                   ELSE OneCompletedRecord /\ Persisted = data

\* a run outside test mode has ended after 4 accepted breaks and no interrupt
C6_Witness ==
    /\ pc = "DONE"
    /\ ~test_mode
    /\ interrupted_in = "none"
    /\ answers = << "yes", "yes", "yes", "yes" >>
    /\ Len(notifications) = 8

-----------------------------------------------------------------------------
(* C7 *)

WellFormed(r) ==
    /\ r.work_sessions \in 1..4
    /\ r.completed => r.work_sessions = 4
    /\ r.total_work_minutes = r.work_sessions * WORK_DURATION

\* C7: every record a run appends, in memory, in the storage file and among
\* the saved ones, has work_sessions in 1..4 (never 0), completed only with
\* work_sessions = 4, and total_work_minutes = work_sessions x 25
C7_RecordsWellFormed ==
    /\ \A k \in (Len(loaded) + 1)..Len(data) : WellFormed(data[k])
    /\ pc # "idle" =>
          \A k \in (Len(loaded) + 1)..Len(Persisted) : WellFormed(Persisted[k])
    /\ \A k \in DOMAIN appended : WellFormed(appended[k])

\* an incomplete record of one session and then a completed record were saved
C7_Witness ==
    /\ Len(appended) = 2
    /\ appended[1].completed = FALSE /\ appended[1].work_sessions = 1
    /\ appended[2].completed = TRUE
    /\ Persisted[Len(Persisted)] = appended[2]

-----------------------------------------------------------------------------
(* C8 *)

\* the store before the first process was missing or loaded as the empty
\* history
StartsEmpty == ~LoadRaises(file0) /\ LoadData(file0) = << >>

\* C8: starting from an empty or missing store, whenever no save is under way
\* a load returns exactly the records appended so far, in the order of their
\* appends, within one process and across processes
C8_Cumulative ==
    (StartsEmpty /\ ~Saving) => Persisted = appended

\* two processes have each appended a record to a store that was missing
C8_Witness ==
    /\ file0 = MissingFile
    /\ Len(appended) = 2
    /\ runs = 2
    /\ pc = "CANCELLED"

-----------------------------------------------------------------------------
(* C9 *)

\* C9: once a process has loaded the store, its history in memory and
\* (whenever no save is under way) the history in the storage file is the
\* loaded history, unchanged and in the same order, followed by at most one
\* record
C9_AppendOnly ==
    /\ IsPrefix(loaded, data)
    /\ Len(data) <= Len(loaded) + 1
    /\ (pc # "idle" /\ ~Saving) =>
          /\ IsPrefix(loaded, Persisted)
          /\ Len(Persisted) <= Len(loaded) + 1

\* a run that loaded one record has ended with two records in the store
C9_Witness ==
    /\ pc = "DONE"
    /\ Len(loaded) = 1
    /\ Len(Persisted) = 2
    /\ Persisted[1] = loaded[1]

-----------------------------------------------------------------------------
(* C10 *)

\* C10: load never raises: no process dies in _load_data whatever the storage
\* file holds; a file that is missing, unparsable, not a mapping, a mapping
\* without 'pomodoros' or with a 'pomodoros' that is not a list loads as the
\* empty history, and a mapping with a list loads as that list
C10_LoadNeverRaises ==
    /\ pc # "CRASHED"
    /\ (file.kind # "dict" \/ file.key # "list") => LoadData(file) = << >>
    /\ (file.kind = "dict" /\ file.key = "list") =>
          /\ Len(LoadData(file)) = Len(file.items)
          /\ \A k \in DOMAIN file.items :
                JsonOfRecord(LoadData(file)[k]) = file.items[k]

-----------------------------------------------------------------------------
(* C11, under SpecFail *)

\* C11: when the write of an append fails, the storage file still loads as
\* the history that was valid before the append
C11_PriorStateKept ==
    pc = "WRITE_ERROR" => Persisted = loaded

-----------------------------------------------------------------------------
(* C12, under SpecFail *)

\* C12: a write failure is not dropped: a run outside test mode that is at
\* the long-break prompt, in the long break or at DONE has its completed
\* record in the storage file, a run outside test mode that ended in
\* CANCELLED after at least one finished session has its incomplete record
\* there, and a process that died of the write error printed no summary
C12_FailurePropagates ==
    /\ (~test_mode /\ (pc = "decide_long_break" \/ InLongBreak \/ pc = "DONE"))
          => WrittenOnce
    /\ (~test_mode /\ pc = "CANCELLED" /\ completed_work_sessions >= 1)
          => /\ OneIncompleteRecord(completed_work_sessions)
             /\ Persisted = data
             /\ LastIsSaved
    /\ pc = "WRITE_ERROR" => summary = -1

\* the write of the completed record failed after the file was truncated
C12_Witness ==
    /\ pc = "WRITE_ERROR"
    /\ ~test_mode
    /\ completed_work_sessions = 4
    /\ file = TruncatedFile
    /\ LastRecord.completed = TRUE

-----------------------------------------------------------------------------
(* C13 *)

\* a process in test mode that has loaded the history
TestRun == test_mode /\ pc \notin { "idle", "CRASHED" }

\* C13: in test mode no step of the run changes the storage file or the
\* history in memory, whatever the completions, answers and interrupts: the
\* history in memory and the history the file loads as stay the loaded one
C13_TestModePersistsNothing ==
    /\ [](TestRun => (data = loaded /\ Persisted = loaded))
    /\ [][(test_mode /\ pc \notin Terminal)
             => (file' = file /\ data' = data /\ appended' = appended)]_vars

\* test-mode runs over a non-empty history: one with 4 finished sessions at
\* DONE, or one cancelled after 2 finished sessions
C13_Witness ==
    /\ test_mode
    /\ Len(loaded) = 1
    /\ \/ pc = "DONE" /\ completed_work_sessions = 4 /\ Len(answers) = 4
       \/ pc = "CANCELLED" /\ completed_work_sessions = 2

-----------------------------------------------------------------------------
(* C14 *)

\* the number of completed records in a history
CompletedIn(h) == Cardinality({ k \in DOMAIN h : h[k].completed })

-----------------------------------------------------------------------------
(* C15, under SpecNotifier *)

\* the notify call of a finished interval is under way, or has failed
InNotify == pc \in { "notify", "notify_warned" }

\* what run_pomodoro does after a countdown that returned Completed, as a
\* function of the state at the notify call, the control location aside
ProceedsAsCompleted ==
    /\ UNCHANGED << file, notifications, answers, interrupted_in, loaded,
                    test_mode, pomodoro_start_time, runs >>
    /\ session_type = "work" =>
          /\ completed_work_sessions' = completed_work_sessions + 1
          /\ i' = i
          /\ i < WORK_SESSIONS_PER_POMODORO =>
                pc' = "decide_short_break" /\ data' = data
          /\ (i = WORK_SESSIONS_PER_POMODORO /\ test_mode) =>
                pc' = "decide_long_break" /\ data' = data
          /\ (i = WORK_SESSIONS_PER_POMODORO /\ ~test_mode) =>
                /\ pc' = "save_open"
                /\ ret' = "decide_long_break"
                /\ data' = Append(data,
                                  CompletedRecord(pomodoro_start_time, runs))
    /\ session_type = "short_break" =>
          /\ pc' = "countdown"
          /\ session_type' = "work"
          /\ i' = i + 1
          /\ elapsed' = 0
          /\ completed_work_sessions' = completed_work_sessions
          /\ data' = data
    /\ session_type = "long_break" =>
          /\ pc' = "DONE"
          /\ summary' = CompletedIn(data)
          /\ completed_work_sessions' = completed_work_sessions
          /\ data' = data

\* C15: a notify call that fails changes nothing of the state but the
\* place in notify, and the run goes on from a failed notify call exactly
\* as from one that worked: the step that leaves notify without an
\* interrupt is the step of a completed interval, the same function of the
\* state in both cases
C15_NotifierFailureChangesNothing ==
    /\ [][(pc = "notify" /\ pc' = "notify_warned")
             => UNCHANGED << file, data, notifications, answers,
                             completed_work_sessions, i, session_type,
                             total_seconds, elapsed, ret, summary,
                             interrupted_in, appended >>]_vars
    /\ [][(InNotify /\ pc' # "notify_warned"
              /\ interrupted_in' = interrupted_in)
             => ProceedsAsCompleted]_vars

\* the notifier failed for the 4th work session of a run outside test mode
\* whose earlier notify calls were made
C15_Witness ==
    /\ pc = "notify_warned"
    /\ ~test_mode
    /\ session_type = "work"
    /\ i = WORK_SESSIONS_PER_POMODORO
    /\ Len(notifications) >= 4

-----------------------------------------------------------------------------
(* C16, under SpecStats *)

\* the completed records of the store that print_statistics keeps: all of
\* them, or with days given those that start at or after now - days
KeptCompleted ==
    { k \in DOMAIN Persisted :
        /\ Persisted[k].completed
        /\ report.days # 0 =>
              Persisted[k].start_time >= report.now - 24 * report.days }

KeptDates == { Persisted[k].start_time \div 24 : k \in KeptCompleted }

RECURSIVE SessionsOf(_)
SessionsOf(K) ==
    IF K = {} THEN 0
    ELSE LET k == CHOOSE x \in K : TRUE
         IN  Persisted[k].work_sessions + SessionsOf(K \ { k })

\* C16: the average of the statistics is the sum of work_sessions of the
\* completed records kept by the filter divided by the number of distinct
\* calendar dates of their start_time, and the line shows that quotient to
\* one decimal; with no completed record kept there is no average
C16_AveragePerDay ==
    report.shown = "statistics" =>
       /\ KeptCompleted # {} =>
             /\ report.avg_sessions = SessionsOf(KeptCompleted)
             /\ report.avg_days = Cardinality(KeptDates)
             /\ report.avg_sessions > 0 =>
                   /\ 2 * report.avg_days * report.avg_tenths
                         <= 20 * report.avg_sessions + report.avg_days
                   /\ 2 * report.avg_days * (report.avg_tenths + 1)
                         > 20 * report.avg_sessions + report.avg_days
             /\ report.avg_sessions = 0 => report.avg_tenths = -1
       /\ KeptCompleted = {} =>
             report.avg_days = 0 /\ report.avg_tenths = -1

\* two completed records of one calendar day with 3 and 4 sessions: 7.0
C16_Witness ==
    /\ report.shown = "statistics"
    /\ Len(Persisted) = 2
    /\ Persisted[1].completed /\ Persisted[2].completed
    /\ Persisted[1].start_time # Persisted[2].start_time
    /\ Cardinality(KeptDates) = 1
    /\ Cardinality(KeptCompleted) = 2
    /\ report.avg_sessions = 7
    /\ report.avg_days = 1
    /\ report.avg_tenths = 70

-----------------------------------------------------------------------------
(* C17 *)

\* lines that are empty or "y" after strip() and lower()
AffirmativeOrEmpty == { "", "y", "Y", " y " }

-----------------------------------------------------------------------------
(* C18, under SpecAsync *)

\* C18: a run outside test mode that was interrupted, at whatever statement,
\* has ended in DONE or CANCELLED, and if it counted at least one finished
\* work session its history gained exactly one record, with that count, which
\* is the last record of the storage file
C18_InterruptAnywhere ==
    (~test_mode /\ interrupted_in # "none" /\ pc \in Terminal) =>
        /\ pc \in { "DONE", "CANCELLED" }
        /\ completed_work_sessions >= 1 =>
              /\ GainedOne
              /\ LastRecord.work_sessions = completed_work_sessions
              /\ Persisted = data

-----------------------------------------------------------------------------
(* C19 *)

\* work_sessions of the record the run has persisted, 0 if it persisted none
SessionsAccounted ==
    IF GainedOne /\ Persisted = data THEN LastRecord.work_sessions ELSE 0

\* C19: at the end of a run outside test mode the number of "Work Session
\* Complete!" notifications the process issued is the number of work
\* sessions of the record it persisted, or 0 if it persisted none
C19_NotificationsMatchRecord ==
    (~test_mode /\ pc \in { "DONE", "CANCELLED" }) =>
        Count("Work Session Complete!") = SessionsAccounted

-----------------------------------------------------------------------------
(* C20, under SpecLive *)

SessionTypes == { "work", "short_break", "long_break" }

\* control is inside the countdown call of this type for session n
InCountdown(type, n) ==
    pc \in { "countdown", "notify" } /\ session_type = type /\ i = n

\* the countdown calls the process has made: one work countdown for each
\* value i has taken, one short-break countdown for each of the first 3
\* prompts answered yes, one long-break countdown if the 4th was
CountdownsBounded ==
    /\ i <= WORK_SESSIONS_PER_POMODORO
    /\ Len(answers) <= WORK_SESSIONS_PER_POMODORO
    /\ ShortBreaksTaken <= WORK_SESSIONS_PER_POMODORO - 1
    /\ Count("Work Session Complete!") <= WORK_SESSIONS_PER_POMODORO
    /\ Count("Break Over!") <= WORK_SESSIONS_PER_POMODORO - 1
    /\ Count("Pomodoro Complete!") <= 1
    /\ InCountdown("work", i) => Len(answers) = i - 1
    /\ InCountdown("short_break", i) =>
          Len(answers) = i /\ i < WORK_SESSIONS_PER_POMODORO
    /\ InCountdown("long_break", i) =>
          Len(answers) = WORK_SESSIONS_PER_POMODORO
    /\ pc = "countdown" => total_seconds > 0

====
